---- MODULE Spec2Model ----
(***************************************************************************)
(* Model of lacp_migration.py: the EXOS static-sharing -> LACP migration   *)
(* script.  One run of main() is a sequential program; every function main *)
(* calls is one action.  Time is counted in ticks of 1/TicksPerSec seconds. *)
(* The device is the environment: every CLI command may raise (transport   *)
(* fault or rejected command), every probe may succeed or fail.            *)
(***************************************************************************)
EXTENDS Integers, Sequences, FiniteSets, TLC

(* ---------------------------- bounds ----------------------------------- *)
\* largest OVERALL_TIMEOUT_S a run is configured with (seconds)
MaxTimeoutS == 2
\* largest STABLE_REQUIRED_S a run is configured with (seconds)
MaxStableS == 2
\* largest PING_INTERVAL_S a run is configured with (seconds)
MaxIntervalS == 1
\* longest time one call of ping_ok() takes (ticks)
MaxProbeTicks == 1

(* ------------------------- program constants --------------------------- *)
\* resolution of the clock: the shortest sleep of the script is 0.5 s
TicksPerSec == 2
\* "stable_since = None": no stability window is open
NoTime == -1
\* "PING_CMD_TEMPLATE = None"
NoTemplate == "None"

BACKUP_NAME_PRE == "lacp_prechange"
BACKUP_NAME_POST == "primary"

\* candidates of detect_ping_template, in list order
candidates == <<"ping count 1 {}", "ping {}", "ping ipv4 count 1 {}">>

\* the device commands of the script (port, group and algorithm are fixed)
CmdSavePre == "save configuration lacp_prechange"
CmdSavePost == "save configuration primary"
CmdSavePlain == "save configuration"
CmdShowSharing == "show ports sharing"
CmdDisableSharing == "disable sharing 1:60"
CmdUnconfigSharing == "unconfigure sharing 1:60"
CmdEnableLacp == "enable sharing 1:60 grouping 1:60,2:60 algorithm address-based L2 lacp"
CmdLacpActive == "configure sharing 1:60 lacp activity active"
CmdEnableStatic == "enable sharing 1:60 grouping 1:60,2:60 algorithm address-based L2"
CmdDisablePort == "disable ports 1:60"
CmdEnablePort == "enable ports 1:60"

\* "save configuration {}".format(name)
SaveCmd(name) ==
  CASE name = BACKUP_NAME_PRE -> CmdSavePre
    [] name = BACKUP_NAME_POST -> CmdSavePost

\* template.format(REACHABILITY_IP)
Format(template) ==
  CASE template = candidates[1] -> "ping count 1 8.8.8.8"
    [] template = candidates[2] -> "ping 8.8.8.8"
    [] template = candidates[3] -> "ping ipv4 count 1 8.8.8.8"

VARIABLES
  pc,                \* position of main()
  OVERALL_TIMEOUT_S, \* configuration: total wait window (s)
  STABLE_REQUIRED_S, \* configuration: stable reachability before commit (s)
  PING_INTERVAL_S,   \* configuration: sleep between polls (s)
  PING_CMD_TEMPLATE, \* the cached probe template, NoTemplate when unresolved
  clock,             \* wall clock, in ticks
  start,             \* reachability_monitor: start
  now,               \* reachability_monitor: now of the latest poll
  stable_since,      \* reachability_monitor: stable_since, NoTime when None
  success,           \* main: the monitor's return value ("none" before)
  dev,               \* the device: aggregation state and primary port state
  log,               \* commands issued through cli(), probes excepted
  last,              \* the function main called last: the ok flags of its
                     \* cli() calls and its return value
  pingCmds,          \* the commands issued by the latest call of ping_ok()
  pingRet,           \* the value the latest call of ping_ok() returned
  pingOks,           \* what try_ping_with_template returned for each of
                     \* the commands in pingCmds
  polls,             \* history: number of polls of the monitor so far
  lastFail,          \* history: now of the latest poll whose probe failed,
                     \* NoTime if no poll of the monitor failed yet
  lost               \* history: "Reachability lost - resetting stability
                     \* window." has been logged

vars == <<pc, OVERALL_TIMEOUT_S, STABLE_REQUIRED_S, PING_INTERVAL_S,
          PING_CMD_TEMPLATE, clock, start, now, stable_since, success, dev,
          log, last, pingCmds, pingRet, pingOks, polls, lastFail, lost>>

cfgVars == <<OVERALL_TIMEOUT_S, STABLE_REQUIRED_S, PING_INTERVAL_S>>
monVars == <<start, now, stable_since, success, lastFail, lost, polls>>
pingVars == <<PING_CMD_TEMPLATE, pingCmds, pingRet, pingOks>>

(* ------------------------------ device --------------------------------- *)
SharingStates == {"none", "static", "lacp"}
DeviceStates == [sharing : SharingStates, port : BOOLEAN]

\* whether the device accepts cmd in state d (a rejected command makes
\* exsh.clicmd raise)
Accepts(cmd, d) ==
  CASE cmd = CmdDisableSharing -> d.sharing # "none"
    [] cmd = CmdUnconfigSharing -> d.sharing # "none"
    [] cmd = CmdEnableLacp -> d.sharing = "none"
    [] cmd = CmdEnableStatic -> d.sharing = "none"
    [] cmd = CmdLacpActive -> d.sharing = "lacp"
    [] OTHER -> TRUE

\* the device after it executed cmd in state d
Effect(cmd, d) ==
  CASE cmd = CmdDisableSharing -> [d EXCEPT !.sharing = "none"]
    [] cmd = CmdUnconfigSharing -> [d EXCEPT !.sharing = "none"]
    [] cmd = CmdEnableLacp -> [d EXCEPT !.sharing = "lacp"]
    [] cmd = CmdEnableStatic -> [d EXCEPT !.sharing = "static"]
    [] cmd = CmdDisablePort -> [d EXCEPT !.port = FALSE]
    [] cmd = CmdEnablePort -> [d EXCEPT !.port = TRUE]
    [] OTHER -> d

(* ------------------------------- cli ----------------------------------- *)
\* a cli that lets the exception of exsh.clicmd escape to its caller
cliPropagates(cmd, d, fault) ==
  IF ~fault /\ Accepts(cmd, d)
    THEN [ok |-> TRUE, dev |-> Effect(cmd, d), raised |-> FALSE]
    ELSE [ok |-> FALSE, dev |-> d, raised |-> TRUE]

\* cli(cmd): fault is the transport raising; returns ok and the new device.
\* It never raises to its caller (raised is FALSE): an exception of
\* exsh.clicmd is caught and becomes ok = FALSE, whatever ignore_error is.
cli(cmd, d, fault) ==
  IF ~fault /\ Accepts(cmd, d)
    THEN [ok |-> TRUE, dev |-> Effect(cmd, d), raised |-> FALSE]
    ELSE [ok |-> FALSE, dev |-> d, raised |-> FALSE]

\* the transport faults of n consecutive cli() calls
FaultSeqs(n) == [1..n -> BOOLEAN]

\* a sequence of cli() calls, each ignoring the result of the one before:
\* the device before call i, f[j] being the transport fault of call j
RECURSIVE DevBefore(_, _, _, _)
DevBefore(cmds, d, f, i) ==
  IF i = 1 THEN d
  ELSE cli(cmds[i - 1], DevBefore(cmds, d, f, i - 1), f[i - 1]).dev

\* the device after all of them
RunCmds(cmds, d, f) == DevBefore(cmds, d, f, Len(cmds) + 1)

\* the ok flags those calls return
RunOks(cmds, d, f) ==
  [i \in 1..Len(cmds) |-> cli(cmds[i], DevBefore(cmds, d, f, i), f[i]).ok]

\* whether one of those calls raised to its caller
RunRaised(cmds, d, f) ==
  \E i \in 1..Len(cmds) : cli(cmds[i], DevBefore(cmds, d, f, i), f[i]).raised

\* where main is after a call: an exception nobody catches ends the run
AfterCall(raised, next) == IF raised THEN "aborted" ELSE next

(* ------------------------- reachability probe -------------------------- *)
\* a detection that keeps the last working candidate, not the first
RECURSIVE FirstWorkingTakesLast(_, _)
FirstWorkingTakesLast(res, i) ==
  IF i > Len(candidates) THEN 0
  ELSE IF FirstWorkingTakesLast(res, i + 1) # 0
         THEN FirstWorkingTakesLast(res, i + 1)
         ELSE IF res[i] THEN i ELSE 0

\* detect_ping_template: res[i] is the outcome of try_ping_with_template for
\* candidate i; the index of the first candidate that succeeds, 0 if none
RECURSIVE FirstWorking(_, _)
FirstWorking(res, i) ==
  IF i > Len(candidates) THEN 0
  ELSE IF res[i] THEN i ELSE FirstWorking(res, i + 1)

detect_ping_template(res) ==
  LET k == FirstWorking(res, 1) IN
  IF k = 0
    THEN [tmpl |-> NoTemplate,
          cmds |-> [i \in 1..Len(candidates) |-> Format(candidates[i])]]
    ELSE [tmpl |-> candidates[k],
          cmds |-> [i \in 1..k |-> Format(candidates[i])]]

\* a ping_ok that runs the candidate list on every call
ping_okRedetects(tmpl, res, r) ==
  LET det == detect_ping_template(res) IN
  IF det.tmpl = NoTemplate
    THEN [tmpl |-> tmpl, ret |-> FALSE, cmds |-> det.cmds]
    ELSE [tmpl |-> det.tmpl, ret |-> r,
          cmds |-> det.cmds \o <<Format(det.tmpl)>>]

\* a ping_ok that still probes when detection found nothing
ping_okProbesUnresolved(tmpl, res, r) ==
  LET det == detect_ping_template(res) IN
  IF tmpl # NoTemplate
    THEN [tmpl |-> tmpl, ret |-> r, cmds |-> <<Format(tmpl)>>]
    ELSE IF det.tmpl = NoTemplate
      THEN [tmpl |-> NoTemplate, ret |-> r, cmds |-> det.cmds]
      ELSE [tmpl |-> det.tmpl, ret |-> r,
            cmds |-> det.cmds \o <<Format(det.tmpl)>>]

\* a ping_ok that drops the cached template when its probe fails
ping_okForgets(tmpl, res, r) ==
  IF tmpl = NoTemplate
    THEN LET det == detect_ping_template(res) IN
         IF det.tmpl = NoTemplate
           THEN [tmpl |-> NoTemplate, ret |-> FALSE, cmds |-> det.cmds]
           ELSE [tmpl |-> det.tmpl, ret |-> r,
                 cmds |-> det.cmds \o <<Format(det.tmpl)>>]
    ELSE [tmpl |-> IF r THEN tmpl ELSE NoTemplate, ret |-> r,
          cmds |-> <<Format(tmpl)>>]

\* ping_ok: tmpl is PING_CMD_TEMPLATE at the call, res the outcomes of the
\* detection probes, r the outcome of the probe with the cached template
ping_ok(tmpl, res, r) ==
  IF tmpl = NoTemplate
    THEN LET det == detect_ping_template(res) IN
         IF det.tmpl = NoTemplate
           THEN [tmpl |-> NoTemplate, ret |-> FALSE, cmds |-> det.cmds]
           ELSE [tmpl |-> det.tmpl, ret |-> r,
                 cmds |-> det.cmds \o <<Format(det.tmpl)>>]
    ELSE [tmpl |-> tmpl, ret |-> r, cmds |-> <<Format(tmpl)>>]

ProbeOutcomes == [1..Len(candidates) -> BOOLEAN]

\* what try_ping_with_template returned for the commands of one call p of
\* ping_ok made with template tmpl: the candidates' outcomes res while
\* detecting, then r for the probe with the template
ProbeOks(tmpl, p, res, r) ==
  IF tmpl # NoTemplate THEN <<r>>
  ELSE IF p.tmpl = NoTemplate THEN [i \in 1..Len(p.cmds) |-> res[i]]
  ELSE [i \in 1..Len(p.cmds) |-> IF i < Len(p.cmds) THEN res[i] ELSE r]

(* ------------------------ reachability monitor ------------------------- *)
\* int(now - stable_since), in seconds
StableFor(nw, ss) == (nw - ss) \div TicksPerSec

\* a failed probe that leaves the window open
NextStableSinceKeepsWindow(ok, nw, ss) ==
  IF ok THEN (IF ss = NoTime THEN nw ELSE ss) ELSE ss

\* a failed probe that only shortens the window by one tick
NextStableSinceDecrements(ok, nw, ss) ==
  IF ok THEN (IF ss = NoTime THEN nw ELSE ss)
  ELSE (IF ss = NoTime \/ ss + 1 > nw THEN NoTime ELSE ss + 1)

\* stable_since after the ok / not ok branch of a poll
NextStableSince(ok, nw, ss) ==
  IF ok THEN (IF ss = NoTime THEN nw ELSE ss) ELSE NoTime

\* a poll that wants the window strictly longer than required
ReturnsTrueStrict(ok, nw, ss, required) ==
  ok /\ ss # NoTime /\ StableFor(nw, ss) > required

\* the poll returns True: probe ok, a window is open and it is long enough
ReturnsTrue(ok, nw, ss, required) ==
  ok /\ ss # NoTime /\ StableFor(nw, ss) >= required

\* a timeout test on whole elapsed seconds: int(now - start) > timeout
TimedOutWholeSeconds(nw, st, timeout) ==
  (nw - st) \div TicksPerSec > timeout

\* (now - start) > OVERALL_TIMEOUT_S
TimedOut(nw, st, timeout) == (nw - st) > timeout * TicksPerSec

(* ------------------------------ Init ----------------------------------- *)
Init ==
  /\ pc = "ping_upfront"
  /\ OVERALL_TIMEOUT_S \in 1..MaxTimeoutS
  /\ STABLE_REQUIRED_S \in 0..MaxStableS
  /\ PING_INTERVAL_S \in 1..MaxIntervalS
  /\ PING_CMD_TEMPLATE = NoTemplate
  /\ clock = 0
  /\ start = 0
  /\ now = 0
  /\ stable_since = NoTime
  /\ success = "none"
  /\ dev \in {d \in DeviceStates : d.port}
  /\ log = <<>>
  /\ last = [oks |-> <<>>, ret |-> "None"]
  /\ pingCmds = <<>>
  /\ pingRet = FALSE
  /\ pingOks = <<>>
  /\ polls = 0
  /\ lastFail = NoTime
  /\ lost = FALSE

(* ----------------------------- main ------------------------------------ *)
\* main, line 185: _ = ping_ok()
PingUpfront ==
  /\ pc = "ping_upfront"
  /\ \E res \in ProbeOutcomes, r \in BOOLEAN :
       LET p == ping_ok(PING_CMD_TEMPLATE, res, r) IN
       /\ PING_CMD_TEMPLATE' = p.tmpl
       /\ pingCmds' = p.cmds
       /\ pingRet' = p.ret
       /\ pingOks' = ProbeOks(PING_CMD_TEMPLATE, p, res, r)
  /\ pc' = "save_pre"
  /\ UNCHANGED <<cfgVars, monVars, clock, dev, log, last>>

\* a try_save_named that always issues the plain save too
try_save_namedAlwaysFallback(name, next) ==
  \E f \in FaultSeqs(2) :
    LET cmds == <<SaveCmd(name), CmdSavePlain>>
    IN /\ dev' = RunCmds(cmds, dev, f)
       /\ last' = [oks |-> RunOks(cmds, dev, f), ret |-> "True"]
       /\ log' = log \o cmds
       /\ pc' = AfterCall(RunRaised(cmds, dev, f), next)

\* try_save_named(name): the named save, the plain save if it failed
try_save_named(name, next) ==
  \E f \in FaultSeqs(2) :
    LET first == cli(SaveCmd(name), dev, f[1])
        cmds == IF first.ok THEN <<SaveCmd(name)>>
                ELSE <<SaveCmd(name), CmdSavePlain>>
    IN /\ dev' = RunCmds(cmds, dev, f)
       /\ last' = [oks |-> RunOks(cmds, dev, f), ret |-> "True"]
       /\ log' = log \o cmds
       /\ pc' = AfterCall(RunRaised(cmds, dev, f), next)

\* main, line 190: try_save_named(BACKUP_NAME_PRE)
SavePre ==
  /\ pc = "save_pre"
  /\ try_save_named(BACKUP_NAME_PRE, "sharing_present")
  /\ UNCHANGED <<cfgVars, monVars, pingVars, clock>>

\* "show ports sharing" prints a line that starts with PRIMARY_PORT
MasterListed(d) == d.sharing # "none"

\* main, line 193: sharing_present_on_primary(), used for a log line only
SharingPresent ==
  /\ pc = "sharing_present"
  /\ \E f \in FaultSeqs(1) :
       LET r == cli(CmdShowSharing, dev, f[1]) IN
       /\ last' = [oks |-> <<r.ok>>,
                   ret |-> IF r.ok /\ MasterListed(dev) THEN "True"
                           ELSE "False"]
       /\ dev' = r.dev
       /\ pc' = AfterCall(r.raised, "reset_sharing")
  /\ log' = Append(log, CmdShowSharing)
  /\ UNCHANGED <<cfgVars, monVars, pingVars, clock>>

\* a function that issues cmds one after the other and sleeps in between
RunFunction(cmds, sleepTicks, next) ==
  /\ \E f \in FaultSeqs(Len(cmds)) :
       /\ dev' = RunCmds(cmds, dev, f)
       /\ last' = [oks |-> RunOks(cmds, dev, f), ret |-> "None"]
       /\ pc' = AfterCall(RunRaised(cmds, dev, f), next)
  /\ log' = log \o cmds
  /\ clock' = clock + sleepTicks

\* a reset that runs only when sharing_present_on_primary() said True
ResetCmdsIfPresent ==
  IF last.ret = "True" THEN <<CmdDisableSharing, CmdUnconfigSharing>>
  ELSE <<>>

\* a reset that forgets to unconfigure
ResetCmdsDisableOnly == <<CmdDisableSharing>>

ResetCmds == <<CmdDisableSharing, CmdUnconfigSharing>>
EnableLacpCmds == <<CmdEnableLacp, CmdLacpActive>>
\* a rollback that does not remove the existing group first
RollbackCmdsNoReset == <<CmdEnableStatic, CmdDisablePort, CmdEnablePort>>

RollbackCmds == <<CmdDisableSharing, CmdUnconfigSharing, CmdEnableStatic,
                  CmdDisablePort, CmdEnablePort>>

\* main, line 195: reset_sharing()
ResetSharing ==
  /\ pc = "reset_sharing"
  /\ RunFunction(ResetCmds, TicksPerSec, "enable_sharing_lacp")
  /\ UNCHANGED <<cfgVars, monVars, pingVars>>

\* main, line 196: enable_sharing_lacp()
EnableSharingLacp ==
  /\ pc = "enable_sharing_lacp"
  /\ RunFunction(EnableLacpCmds, TicksPerSec \div 2, "monitor_start")
  /\ UNCHANGED <<cfgVars, monVars, pingVars>>

\* a branch that commits whatever the monitor returned
BranchAlwaysCommits(succ) == "commit"

\* main, line 204: "if success:" picks the commit or the rollback branch
Branch(succ) == IF succ = "True" THEN "commit" ELSE "rollback"

\* reachability_monitor, lines 131-133
MonitorStart ==
  /\ pc = "monitor_start"
  /\ start' = clock
  /\ stable_since' = NoTime
  /\ last' = [oks |-> <<>>, ret |-> "None"]
  /\ pc' = "monitor_poll"
  /\ UNCHANGED <<cfgVars, pingVars, clock, now, success, lastFail, lost, polls,
                 dev, log>>

\* reachability_monitor, lines 135-156: one iteration of the loop
MonitorPoll ==
  /\ pc = "monitor_poll"
  /\ \E res \in ProbeOutcomes, r \in BOOLEAN, d \in 0..MaxProbeTicks :
       LET p == ping_ok(PING_CMD_TEMPLATE, res, r)
           nw == clock + d
           ss == NextStableSince(p.ret, nw, stable_since)
       IN /\ PING_CMD_TEMPLATE' = p.tmpl
          /\ pingCmds' = p.cmds
          /\ pingRet' = p.ret
          /\ pingOks' = ProbeOks(PING_CMD_TEMPLATE, p, res, r)
          /\ polls' = polls + 1
          /\ now' = nw
          /\ lastFail' = IF p.ret THEN lastFail ELSE nw
          /\ lost' = (lost \/ (~p.ret /\ stable_since # NoTime))
          /\ stable_since' = ss
          /\ IF ReturnsTrue(p.ret, nw, stable_since, STABLE_REQUIRED_S)
               THEN /\ success' = "True"
                    /\ pc' = Branch("True")
                    /\ clock' = nw
               ELSE IF TimedOut(nw, start, OVERALL_TIMEOUT_S)
                 THEN /\ success' = "False"
                      /\ pc' = Branch("False")
                      /\ clock' = nw
                 ELSE /\ success' = success
                      /\ pc' = pc
                      /\ clock' = nw + PING_INTERVAL_S * TicksPerSec
  /\ UNCHANGED <<cfgVars, start, dev, log, last>>

\* main, lines 204-207: commit
Commit ==
  /\ pc = "commit"
  /\ try_save_named(BACKUP_NAME_POST, "done")
  /\ UNCHANGED <<cfgVars, monVars, pingVars, clock>>

\* main, lines 208-214: rollback_to_static_sharing()
Rollback ==
  /\ pc = "rollback"
  /\ RunFunction(RollbackCmds, 5 * (TicksPerSec \div 2), "done")
  /\ UNCHANGED <<cfgVars, monVars, pingVars>>

Next ==
  \/ PingUpfront
  \/ SavePre
  \/ SharingPresent
  \/ ResetSharing
  \/ EnableSharingLacp
  \/ MonitorStart
  \/ MonitorPoll
  \/ Commit
  \/ Rollback

Spec == Init /\ [][Next]_vars

(* ------------------------------ claims --------------------------------- *)
\* the commands main issued after enable_sharing_lacp() returned, i.e. since
\* the monitor started ("configure sharing ... lacp activity active" is the
\* last command before it and is issued once)
RECURSIVE IndexOf(_, _, _)
IndexOf(sq, x, i) ==
  IF i > Len(sq) THEN 0 ELSE IF sq[i] = x THEN i ELSE IndexOf(sq, x, i + 1)

SinceMonitor ==
  IF IndexOf(log, CmdLacpActive, 1) = 0 THEN <<>>
  ELSE SubSeq(log, IndexOf(log, CmdLacpActive, 1) + 1, Len(log))

InSeq(x, sq) == \E i \in 1..Len(sq) : sq[i] = x

\* C1: the monitor returns True only at a poll whose probe succeeded, with a
\* window open for at least STABLE_REQUIRED_S seconds, and with no failed
\* probe since the poll that opened the window.
C1_SuccessNeedsStableRun ==
  success = "True" =>
    /\ pingRet
    /\ stable_since # NoTime
    /\ now - stable_since >= STABLE_REQUIRED_S * TicksPerSec
    /\ lastFail < stable_since

\* C1 witness: success after the window was lost once and reopened
C1_Witness ==
  /\ success = "True"
  /\ lost
  /\ STABLE_REQUIRED_S >= 1
  /\ lastFail # NoTime

\* C2: when main is done, the commands issued since the monitor started are
\* the post-change save (with or without its fallback) if the monitor
\* returned True, and exactly the rollback commands (no save, no reboot) if
\* it returned False; nothing is issued while the monitor runs.
C2_CommitXorRollback ==
  /\ pc = "done" => success \in {"True", "False"}
  /\ (pc = "done" /\ success = "True") =>
       /\ SinceMonitor \in {<<CmdSavePost>>, <<CmdSavePost, CmdSavePlain>>}
       /\ \A c \in {CmdEnableStatic, CmdDisablePort, CmdEnablePort} :
            ~InSeq(c, log)
  /\ (pc = "done" /\ success = "False") =>
       /\ SinceMonitor = RollbackCmds
       /\ ~InSeq(CmdSavePost, log)
  /\ pc \in {"monitor_poll", "commit", "rollback"} => SinceMonitor = <<>>
  /\ pc = "commit" => success = "True"
  /\ pc = "rollback" => success = "False"

\* C2 witness: a run that rolled back, with a rollback command that failed
C2_Witness ==
  /\ pc = "done"
  /\ success = "False"
  /\ \E i \in 1..Len(last.oks) : ~last.oks[i]

\* C3: a poll whose probe fails closes the window (stable_since = None), and
\* a poll whose probe succeeds with no window open opens one at that poll's
\* now: nothing of the earlier run of successes is kept.
C3_FailureRestartsWindow ==
  [][pc = "monitor_poll" =>
       /\ ~pingRet' => stable_since' = NoTime
       /\ (pingRet' /\ stable_since = NoTime) => stable_since' = now']_vars

\* C3 witness: the window was lost and the latest poll reopened it
C3_Witness ==
  /\ pc = "monitor_poll"
  /\ lost
  /\ pingRet
  /\ stable_since = now
  /\ lastFail # NoTime
  /\ lastFail < stable_since

\* C4: the monitor never returns True at a poll whose elapsed time since
\* start exceeds OVERALL_TIMEOUT_S.
C4_NoSuccessPastTimeout ==
  success = "True" => ~TimedOut(now, start, OVERALL_TIMEOUT_S)

\* C5: with STABLE_REQUIRED_S <= 0 the monitor returns True at the first
\* poll whose probe succeeds, i.e. every poll with a successful probe
\* returns True.
C5_ZeroThresholdFirstSuccess ==
  [][(pc = "monitor_poll" /\ STABLE_REQUIRED_S <= 0 /\ pingRet')
       => success' = "True"]_vars

\* C6: with OVERALL_TIMEOUT_S < STABLE_REQUIRED_S the monitor never returns
\* True.
C6_ShortTimeoutNeverSucceeds ==
  OVERALL_TIMEOUT_S < STABLE_REQUIRED_S => success # "True"

\* C7: a run configured with STABLE_REQUIRED_S >= OVERALL_TIMEOUT_S issues
\* no device-changing command (no reset, no LACP enable).
C7_BadConfigChangesNothing ==
  STABLE_REQUIRED_S >= OVERALL_TIMEOUT_S =>
    \A c \in {CmdDisableSharing, CmdUnconfigSharing, CmdEnableLacp,
              CmdLacpActive} : ~InSeq(c, log)

\* C8: detection is attempted once per run: a call of ping_ok made by the
\* monitor (so after the up-front call) with the template still unresolved
\* issues no probe command, returns False and leaves it unresolved.
C8_DetectionOnlyOnce ==
  [][(pc = "monitor_poll" /\ PING_CMD_TEMPLATE = NoTemplate) =>
       /\ pingCmds' = <<>>
       /\ ~pingRet'
       /\ PING_CMD_TEMPLATE' = NoTemplate]_vars

\* C9: with a template cached, a call of ping_ok issues exactly one command,
\* the cached template formatted with the target, and keeps the template.
C9_CachedTemplateOneCommand ==
  [][(pc \in {"ping_upfront", "monitor_poll"}
      /\ PING_CMD_TEMPLATE # NoTemplate) =>
       /\ pingCmds' = <<Format(PING_CMD_TEMPLATE)>>
       /\ PING_CMD_TEMPLATE' = PING_CMD_TEMPLATE]_vars

\* C9 witness: a poll that used the cached template, and whose probe failed
C9_Witness ==
  /\ pc = "monitor_poll"
  /\ PING_CMD_TEMPLATE # NoTemplate
  /\ now > start
  /\ pingCmds = <<Format(PING_CMD_TEMPLATE)>>
  /\ ~pingRet

\* rollback_to_static_sharing() on device d when no command hits a transport
\* fault: each command takes effect or is rejected as already done
RollbackDev(d) ==
  RunCmds(RollbackCmds, d, [i \in 1..Len(RollbackCmds) |-> FALSE])

StaticTarget == [sharing |-> "static", port |-> TRUE]

\* C10: from the device state of every reachable state (all three
\* aggregation states, port enabled or not) the rollback ends with a static
\* group on an enabled primary port, and a second rollback right after it
\* ends in the same state; the rollback main ran ends there when its enable
\* commands took effect.
C10_RollbackIdempotent ==
  /\ LET once == RollbackDev(dev) IN
       /\ once = StaticTarget
       /\ RollbackDev(once) = once
  /\ (pc = "done" /\ success = "False" /\ last.oks[3] /\ last.oks[5])
       => dev = StaticTarget

\* C10 witness: main rolled back from LACP; "disable sharing" took effect,
\* "unconfigure sharing" was rejected as already done, the rest took effect
C10_Witness ==
  /\ pc = "done"
  /\ success = "False"
  /\ last.oks = <<TRUE, FALSE, TRUE, TRUE, TRUE>>
  /\ dev = StaticTarget

\* C11: while no candidate syntax has worked (the template is unresolved)
\* every call of ping_ok has returned False and no window was opened; the
\* monitor then returns only False, at a poll past the timeout, and main
\* ends with the rollback commands and no post-change save.
C11_NoSyntaxMeansRollback ==
  PING_CMD_TEMPLATE = NoTemplate =>
    /\ ~pingRet
    /\ stable_since = NoTime
    /\ ~lost
    /\ success # "True"
    /\ pc # "commit"
    /\ success = "False" => TimedOut(now, start, OVERALL_TIMEOUT_S)
    /\ pc = "done" =>
         /\ success = "False"
         /\ SinceMonitor = RollbackCmds
         /\ ~InSeq(CmdSavePost, log)

\* C11 witness: a finished run in which detection failed at every call
C11_Witness ==
  /\ pc = "done"
  /\ PING_CMD_TEMPLATE = NoTemplate
  /\ Len(pingCmds) = Len(candidates)
  /\ lastFail = now
  /\ SinceMonitor = RollbackCmds

\* the commands of a run up to the start of the monitor
PreMonitorLogs ==
  {pre \o <<CmdShowSharing>> \o ResetCmds \o EnableLacpCmds :
     pre \in {<<CmdSavePre>>, <<CmdSavePre, CmdSavePlain>>}}

\* the most polls a monitor run can take
MaxPolls == (OVERALL_TIMEOUT_S \div PING_INTERVAL_S) + 2

\* how far main is from its end: the steps left, the monitor counting
\* for as many polls as it can still take
StepsLeft ==
  CASE pc = "ping_upfront" -> 8 + MaxPolls
    [] pc = "save_pre" -> 7 + MaxPolls
    [] pc = "sharing_present" -> 6 + MaxPolls
    [] pc = "reset_sharing" -> 5 + MaxPolls
    [] pc = "enable_sharing_lacp" -> 4 + MaxPolls
    [] pc = "monitor_start" -> 3 + MaxPolls
    [] pc = "monitor_poll" -> 2 + MaxPolls - polls
    [] pc \in {"commit", "rollback"} -> 1
    [] OTHER -> 0

\* C12: no failing command ends the run early: main never stops on an
\* exception, a finished run has issued the save, the check, the reset and
\* the enable commands and then the commit or the rollback commands, and
\* every run finishes: main can always take a step until it is done, and
\* each step brings it closer to the end.
C12_NoCommandFailureAborts ==
  /\ [](pc # "aborted")
  /\ [](pc = "done" \/ ENABLED Next)
  /\ [](StepsLeft >= 0)
  /\ [][StepsLeft' < StepsLeft]_vars
  /\ [](pc = "done" =>
          /\ success \in {"True", "False"}
          /\ \E pre \in PreMonitorLogs :
               log \in {pre \o <<CmdSavePost>>,
                        pre \o <<CmdSavePost, CmdSavePlain>>,
                        pre \o RollbackCmds})

\* C12 witness: a finished run whose LACP enable and rollback commands all
\* failed
C12_Witness ==
  /\ pc = "done"
  /\ success = "False"
  /\ dev.sharing = "none"
  /\ \A i \in 1..Len(last.oks) : ~last.oks[i]

\* the commands that change the aggregation of the primary port
AggCmds == {CmdDisableSharing, CmdUnconfigSharing, CmdEnableLacp,
            CmdLacpActive, CmdEnableStatic}

\* C13: order of a run.  The up-front detection and the pre-change save come
\* before every aggregation command; disable and unconfigure come right
\* before the LACP enable; the monitor polls only after enable_sharing_lacp
\* has issued its commands; commit and rollback commands come only after the
\* monitor has returned.
C13_RunOrder ==
  /\ pc \in {"ping_upfront", "save_pre"} => log = <<>>
  /\ pc = "ping_upfront" => pingCmds = <<>>
  /\ \A i \in 1..Len(log) :
       /\ log[i] \in AggCmds =>
            (i > 1 /\ log[1] = CmdSavePre /\ pingCmds # <<>>)
       /\ log[i] = CmdEnableLacp =>
            (i > 2 /\ log[i - 2] = CmdDisableSharing
                   /\ log[i - 1] = CmdUnconfigSharing)
       /\ log[i] \in {CmdSavePost, CmdEnableStatic, CmdDisablePort,
                      CmdEnablePort} =>
            (success \in {"True", "False"}
             /\ IndexOf(log, CmdLacpActive, 1) \in 1..(i - 1))
  /\ pc \in {"ping_upfront", "save_pre", "sharing_present", "reset_sharing",
             "enable_sharing_lacp", "monitor_start"} =>
       (now = 0 /\ stable_since = NoTime /\ lastFail = NoTime
        /\ success = "none")
  /\ pc \in {"monitor_poll", "commit", "rollback", "done"} =>
       (\E pre \in PreMonitorLogs : SubSeq(log, 1, Len(pre)) = pre)
  /\ SinceMonitor # <<>> => success \in {"True", "False"}

\* C13 witness: the monitor has polled, after the enable commands, and main
\* then rolled back
C13_Witness ==
  /\ pc = "done"
  /\ now > start
  /\ InSeq(CmdEnableLacp, log)
  /\ SinceMonitor = RollbackCmds

\* the commands a step appended to the trace
Issued == SubSeq(log', Len(log) + 1, Len(log'))

\* what C14 asks of a step that runs try_save_named
SaveStepOk ==
  pc \in {"save_pre", "commit"} =>
    /\ Len(Issued) \in {1, 2}
    /\ Issued[1] = (IF pc = "save_pre" THEN CmdSavePre ELSE CmdSavePost)
    /\ Len(last'.oks) = Len(Issued)
    /\ (Len(Issued) = 2) <=> ~last'.oks[1]
    /\ (Len(Issued) = 2) => (Issued[2] = CmdSavePlain)
    /\ last'.ret = "True"
    /\ pc' # "aborted"

\* C14: try_save_named issues the named save first, the plain save after it
\* exactly when the named save failed, nothing else, and returns True even
\* when both failed.
C14_SaveFallback ==
  [][SaveStepOk]_vars

\* C14 witness: the post-change save was tried and both saves failed
C14_Witness ==
  /\ pc = "done"
  /\ success = "True"
  /\ SinceMonitor = <<CmdSavePost, CmdSavePlain>>
  /\ last.oks = <<FALSE, FALSE>>

\* every poll so far succeeded and no call of ping_ok took any time: the
\* polls are exactly PING_INTERVAL_S apart, the first one at start
AllOkNoDelay ==
  /\ polls >= 1
  /\ lastFail = NoTime
  /\ now - start = (polls - 1) * PING_INTERVAL_S * TicksPerSec

\* C15: when every probe succeeds without delay and STABLE_REQUIRED_S <=
\* OVERALL_TIMEOUT_S, the monitor never returns False; it returns True at the
\* first poll after the first one that is at least STABLE_REQUIRED_S later
\* than the first, and main then issues the post-change save.
C15_AllOkCommits ==
  (AllOkNoDelay /\ STABLE_REQUIRED_S <= OVERALL_TIMEOUT_S) =>
    /\ success # "False"
    /\ stable_since = start
    /\ pc = "monitor_poll" =>
         (polls = 1 \/ now - start < STABLE_REQUIRED_S * TicksPerSec)
    /\ success = "True" =>
         /\ polls >= 2
         /\ now - start >= STABLE_REQUIRED_S * TicksPerSec
         /\ \/ polls = 2
            \/ now - PING_INTERVAL_S * TicksPerSec - start
                 < STABLE_REQUIRED_S * TicksPerSec
    /\ pc = "done" =>
         SinceMonitor \in {<<CmdSavePost>>, <<CmdSavePost, CmdSavePlain>>}

\* C15 witness: such a run, needing more than two polls, that has committed
C15_Witness ==
  /\ AllOkNoDelay
  /\ STABLE_REQUIRED_S <= OVERALL_TIMEOUT_S
  /\ STABLE_REQUIRED_S >= 2
  /\ polls >= 3
  /\ pc = "done"
  /\ success = "True"
  /\ now - start = STABLE_REQUIRED_S * TicksPerSec

\* the position of a template in the candidate list, 0 for NoTemplate
CandidateIndex(tmpl) == IndexOf(candidates, tmpl, 1)

\* what C16 asks of a call of ping_ok that runs detect_ping_template
DetectStepOk ==
  (pc \in {"ping_upfront", "monitor_poll"}
   /\ PING_CMD_TEMPLATE = NoTemplate) =>
    LET k == CandidateIndex(PING_CMD_TEMPLATE')
        n == IF k = 0 THEN Len(candidates) ELSE k
    IN /\ Len(pingCmds') = (IF k = 0 THEN n ELSE n + 1)
       /\ \A i \in 1..n : pingCmds'[i] = Format(candidates[i])
       /\ \A i \in 1..(n - 1) : ~pingOks'[i]
       /\ pingOks'[n] <=> (k # 0)
       /\ k # 0 => pingCmds'[n + 1] = Format(candidates[k])

\* C16: detect_ping_template probes the candidates in list order, one probe
\* each; it stops at the first candidate whose probe succeeds and returns
\* it; it returns None only after one failed probe for every candidate.
C16_DetectInOrder ==
  [][DetectStepOk]_vars

\* C16 witness: the first candidate failed, the second was detected
C16_Witness ==
  /\ PING_CMD_TEMPLATE = candidates[2]
  /\ Len(pingCmds) = 3
  /\ pingOks[1] = FALSE
  /\ pingOks[2] = TRUE

\* C17: a detected template is never unset and never replaced.
C17_TemplateOneWay ==
  [][PING_CMD_TEMPLATE # NoTemplate
       => PING_CMD_TEMPLATE' = PING_CMD_TEMPLATE]_vars

\* C17 witness: the run ended with the template still cached although the
\* last probes with it failed
C17_Witness ==
  /\ pc = "done"
  /\ PING_CMD_TEMPLATE # NoTemplate
  /\ success = "False"
  /\ polls >= 2
  /\ stable_since = NoTime
  /\ pingCmds = <<Format(PING_CMD_TEMPLATE)>>

\* every poll of the monitor so far failed
AllFailed ==
  polls >= 1 /\ ~lost /\ stable_since = NoTime /\ lastFail = now

\* C18: the monitor terminates.  It never sleeps after a poll whose elapsed
\* time exceeds OVERALL_TIMEOUT_S, so it takes at most
\* OVERALL_TIMEOUT_S / PING_INTERVAL_S + 2 polls; it returns False only at
\* such a poll, and when every probe failed it returns False exactly there;
\* a poll is always possible, and it either returns or is one more of the
\* bounded number of polls.
C18_MonitorTerminates ==
  /\ []((pc = "monitor_poll" /\ polls >= 1)
          => now - start <= OVERALL_TIMEOUT_S * TicksPerSec)
  /\ [](polls <= MaxPolls)
  /\ [](success = "False" => now - start > OVERALL_TIMEOUT_S * TicksPerSec)
  /\ []((AllFailed /\ now - start > OVERALL_TIMEOUT_S * TicksPerSec)
          => success = "False")
  /\ [](pc = "monitor_poll" => ENABLED MonitorPoll)
  /\ [][pc = "monitor_poll" =>
          \/ success' \in {"True", "False"} /\ pc' \in {"commit", "rollback"}
          \/ pc' = "monitor_poll" /\ polls' = polls + 1 /\ polls' < MaxPolls
               /\ clock' >= clock + PING_INTERVAL_S * TicksPerSec]_vars

\* C18 witness: every probe failed and the monitor returned False after the
\* largest number of polls
C18_Witness ==
  /\ AllFailed
  /\ success = "False"
  /\ polls = MaxPolls
  /\ OVERALL_TIMEOUT_S >= 2

\* what C19 asks of the steps from the up-front probe to the LACP enable
InfoStepOk ==
  /\ pc = "ping_upfront" => (pc' = "save_pre" /\ log' = log)
  /\ pc = "sharing_present" =>
       (pc' = "reset_sharing" /\ Issued = <<CmdShowSharing>>)
  /\ pc = "reset_sharing" =>
       /\ pc' = "enable_sharing_lacp"
       /\ Issued = <<CmdDisableSharing, CmdUnconfigSharing>>
  /\ pc = "enable_sharing_lacp" =>
       /\ pc' = "monitor_start"
       /\ Issued = <<CmdEnableLacp, CmdLacpActive>>

\* C19: whatever the up-front probe returned (reachable, unreachable, no
\* syntax found) and whatever sharing_present_on_primary returned (True,
\* False, command failed), reset_sharing and enable_sharing_lacp run next and
\* issue the same four commands.
C19_InfoStepsDoNotSteer ==
  [][InfoStepOk]_vars

\* C19 witness: no probe syntax was found up front, and the four commands
\* were issued all the same (the LACP enable itself failed)
C19_Witness ==
  /\ pc = "monitor_start"
  /\ PING_CMD_TEMPLATE = NoTemplate
  /\ ~pingRet
  /\ ~last.oks[1]
  /\ Len(log) >= 4
  /\ SubSeq(log, Len(log) - 3, Len(log))
       = <<CmdDisableSharing, CmdUnconfigSharing, CmdEnableLacp,
           CmdLacpActive>>

====
